---- MODULE Spec2Model ----
(***************************************************************************)
(* Model of extract_openreview_comments/formatter.py (MarkdownFormatter).  *)
(*                                                                         *)
(* Python values are tagged records [t |-> <type>, v |-> <payload>]; text  *)
(* is a TLA+ string, processed character by character where the code       *)
(* splits, replaces, joins or decodes it.  A call either returns a value   *)
(* or raises: results are records [exc |-> <exception name or "">, v].     *)
(***************************************************************************)
EXTENDS Integers, Sequences, FiniteSets, TLC

VARIABLES op, notes, submission_title, note, include_replies, level, filename,
          field, tz, pc, result

vars == <<op, notes, submission_title, note, include_replies, level, filename,
          field, tz, pc, result>>

(***************************************************************************)
(* Python values                                                           *)
(***************************************************************************)
PyNone == [t |-> "None", v |-> 0]
PyStr(s) == [t |-> "str", v |-> s]
PyInt(n) == [t |-> "int", v |-> n]
PyBool(b) == [t |-> "bool", v |-> b]
PyList(xs) == [t |-> "list", v |-> xs]
PyDict(d) == [t |-> "dict", v |-> d]

\* The empty dict {}: a function with an empty domain.
EmptyMap == [k \in {} |-> PyNone]

\* Python truthiness: bool(x).
Truthy(x) ==
    CASE x.t = "None" -> FALSE
      [] x.t = "str" -> x.v # ""
      [] x.t = "int" -> x.v # 0
      [] x.t = "bool" -> x.v
      [] x.t = "list" -> Len(x.v) > 0
      [] x.t = "dict" -> DOMAIN x.v # {}
      [] OTHER -> TRUE

\* dict.get(key) with the default None.
DictGet(d, key) == IF key \in DOMAIN d THEN d[key] ELSE PyNone

(***************************************************************************)
(* Text primitives                                                         *)
(***************************************************************************)
Char(s, i) == SubSeq(s, i, i)

\* s[i:] in Python, with i a 1-based position here.
From(s, i) == SubSeq(s, i, Len(s))

\* s.startswith(p, i-1)
StartsWithAt(s, p, i) ==
    /\ i + Len(p) - 1 <= Len(s)
    /\ SubSeq(s, i, i + Len(p) - 1) = p

\* sep.join(parts)
RECURSIVE JoinFrom(_, _, _)
JoinFrom(sep, parts, i) ==
    IF i > Len(parts) THEN ""
    ELSE IF i = Len(parts) THEN parts[i]
    ELSE parts[i] \o sep \o JoinFrom(sep, parts, i + 1)

Join(sep, parts) == JoinFrom(sep, parts, 1)

\* s.split(sep) for a one-character separator: the pieces between the
\* separators, empty pieces kept.  seps are the positions of the separators
\* not yet passed, start is where the current piece begins.
RECURSIVE SplitFrom(_, _, _)
SplitFrom(s, seps, start) ==
    IF seps = {} THEN <<SubSeq(s, start, Len(s))>>
    ELSE LET j == CHOOSE x \in seps : \A y \in seps : x <= y
         IN <<SubSeq(s, start, j - 1)>> \o SplitFrom(s, seps \ {j}, j + 1)

Split(s, sep) == SplitFrom(s, {j \in 1..Len(s) : Char(s, j) = sep}, 1)

\* s.replace(old, new) for a one-character old.
RECURSIVE ReplaceFrom(_, _, _, _)
ReplaceFrom(s, old, new, i) ==
    IF i > Len(s) THEN ""
    ELSE (IF Char(s, i) = old THEN new ELSE Char(s, i))
         \o ReplaceFrom(s, old, new, i + 1)

Replace(s, old, new) == ReplaceFrom(s, old, new, 1)

\* unit * n
RECURSIVE Repeat(_, _)
Repeat(unit, n) == IF n <= 0 THEN "" ELSE unit \o Repeat(unit, n - 1)

LowerChars == "abcdefghijklmnopqrstuvwxyz"
UpperChars == "ABCDEFGHIJKLMNOPQRSTUVWXYZ"

IsLower(c) == \E k \in 1..Len(LowerChars) : Char(LowerChars, k) = c
IsUpper(c) == \E k \in 1..Len(UpperChars) : Char(UpperChars, k) = c
ToUpper(c) ==
    IF IsLower(c)
    THEN Char(UpperChars, CHOOSE k \in 1..Len(LowerChars) : Char(LowerChars, k) = c)
    ELSE c
ToLower(c) ==
    IF IsUpper(c)
    THEN Char(LowerChars, CHOOSE k \in 1..Len(UpperChars) : Char(UpperChars, k) = c)
    ELSE c

\* str.title(): the first letter of every run of letters in upper case, the
\* other letters of the run in lower case.
RECURSIVE TitleFrom(_, _, _)
TitleFrom(s, i, prevCased) ==
    IF i > Len(s) THEN ""
    ELSE LET c == Char(s, i)
             cased == IsLower(c) \/ IsUpper(c)
         IN (IF prevCased THEN ToLower(c) ELSE ToUpper(c))
            \o TitleFrom(s, i + 1, cased)

Title(s) == TitleFrom(s, 1, FALSE)

\* The character references html.unescape decodes, as far as the inputs of
\* this model use them: entity text and the character it stands for.
Entities ==
    << <<"&amp;", "&">>, <<"&lt;", "<">>, <<"&gt;", ">">>,
       <<"&quot;", "\"">>, <<"&#39;", "'">> >>

\* html.unescape(s): one left-to-right pass; decoded text is not decoded again.
RECURSIVE UnescapeFrom(_, _)
UnescapeFrom(s, i) ==
    IF i > Len(s) THEN ""
    ELSE LET hits == {k \in 1..Len(Entities) : StartsWithAt(s, Entities[k][1], i)}
         IN IF hits = {}
            THEN Char(s, i) \o UnescapeFrom(s, i + 1)
            ELSE LET k == CHOOSE h \in hits : TRUE
                 IN Entities[k][2] \o UnescapeFrom(s, i + Len(Entities[k][1]))

Unescape(s) == UnescapeFrom(s, 1)

(***************************************************************************)
(* str(x) and repr(x), as an f-string or str() renders a value             *)
(***************************************************************************)
RECURSIVE Repr(_)
RECURSIVE ReprItems(_, _)
RECURSIVE ReprPairs(_, _)

\* repr of the items of a list, ", "-separated.
ReprItems(xs, i) ==
    IF i > Len(xs) THEN ""
    ELSE Repr(xs[i]) \o (IF i < Len(xs) THEN ", " ELSE "") \o ReprItems(xs, i + 1)

\* repr of the key: value pairs of a dict; the models' dicts printed this way
\* have at most one key, so the order of the keys does not show.
ReprPairs(d, keys) ==
    IF keys = {} THEN ""
    ELSE LET k == CHOOSE x \in keys : TRUE
         IN "'" \o k \o "': " \o Repr(d[k])
            \o (IF keys \ {k} # {} THEN ", " ELSE "") \o ReprPairs(d, keys \ {k})

Repr(x) ==
    CASE x.t = "None" -> "None"
      [] x.t = "str" -> "'" \o x.v \o "'"
      [] x.t = "int" -> ToString(x.v)
      [] x.t = "bool" -> IF x.v THEN "True" ELSE "False"
      [] x.t = "list" -> "[" \o ReprItems(x.v, 1) \o "]"
      [] x.t = "dict" -> "{" \o ReprPairs(x.v, DOMAIN x.v) \o "}"

\* str(x), which is what f"{x}" puts into the text.
Str(x) == IF x.t = "str" THEN x.v ELSE Repr(x)

(***************************************************************************)
(* datetime.fromtimestamp(seconds).strftime(fmt)                           *)
(***************************************************************************)
\* n in decimal, zero-padded on the left to w characters.
Pad(n, w) == LET d == ToString(n) IN Repeat("0", w - Len(d)) \o d

\* The local calendar date and time of a POSIX time in seconds; offset is the
\* local zone's offset from UTC in seconds (days-to-civil conversion of the
\* proleptic Gregorian calendar).
Civil(seconds, offset) ==
    LET local == seconds + offset
        days == local \div 86400
        rem == local % 86400
        z == days + 719468
        era == z \div 146097
        doe == z - era * 146097
        yoe == (doe - doe \div 1460 + doe \div 36524 - doe \div 146096) \div 365
        doy == doe - (365 * yoe + yoe \div 4 - yoe \div 100)
        mp == (5 * doy + 2) \div 153
        d == doy - (153 * mp + 2) \div 5 + 1
        m == IF mp < 10 THEN mp + 3 ELSE mp - 9
        y == yoe + era * 400 + (IF m <= 2 THEN 1 ELSE 0)
    IN [Y |-> y, m |-> m, d |-> d,
        H |-> rem \div 3600, M |-> (rem % 3600) \div 60, S |-> rem % 60]

\* strftime: %Y %m %d %H %M %S are replaced, every other character is copied.
RECURSIVE StrftimeFrom(_, _, _)
StrftimeFrom(dt, fmt, i) ==
    IF i > Len(fmt) THEN ""
    ELSE IF Char(fmt, i) = "%" /\ i < Len(fmt)
    THEN LET c == Char(fmt, i + 1)
         IN (CASE c = "Y" -> Pad(dt.Y, 4)
               [] c = "m" -> Pad(dt.m, 2)
               [] c = "d" -> Pad(dt.d, 2)
               [] c = "H" -> Pad(dt.H, 2)
               [] c = "M" -> Pad(dt.M, 2)
               [] c = "S" -> Pad(dt.S, 2)
               [] OTHER -> "%" \o c)
            \o StrftimeFrom(dt, fmt, i + 2)
    ELSE Char(fmt, i) \o StrftimeFrom(dt, fmt, i + 1)

\* datetime.fromtimestamp(cdate / 1000).strftime(fmt) in the zone of offset.
FormatTimestamp(cdate, fmt, offset) ==
    StrftimeFrom(Civil(cdate \div 1000, offset), fmt, 1)

(***************************************************************************)
(* Nodes.  A node is [kind, a]: kind "Note" is a structured record (an     *)
(* openreview Note), kind "dict" a key/value record; a maps the attribute  *)
(* names the node has to Python values.                                    *)
(***************************************************************************)
\* A call's outcome: a returned value, or a raised exception.
Return(x) == [exc |-> "", v |-> x]
Raise(name) == [exc |-> name, v |-> ""]

\* _get_attr(note, attr): note.get(attr, None) or getattr(note, attr, None).
_get_attr(n, attr) ==
    IF attr \in DOMAIN n.a THEN n.a[attr] ELSE PyNone

\* _extract_value(field): the Python value returned.
_extract_value(f) ==
    LET value == CASE f.t = "dict" -> DictGet(f.v, "value")
                   [] f.t = "str" -> f
                   [] f.t \in {"int", "bool"} -> PyStr(Str(f))
                   [] OTHER -> PyNone
    IN IF Truthy(value) /\ value.t = "str"
       THEN PyStr(Unescape(value.v))
       ELSE value

\* Two steps in sequence, each giving lines or raising: the second runs only
\* when the first did not raise.
Then(r1, r2) ==
    IF r1.exc # "" THEN r1
    ELSE IF r2.exc # "" THEN r2
    ELSE Return(r1.v \o r2.v)

\* Every string of lines with indent put in front.
Indented(indent, lines) == [i \in 1..Len(lines) |-> indent \o lines[i]]

\* ", ".join(signatures_raw) if signatures_raw else "Anonymous"
Signatures(n) ==
    LET signatures_raw == _get_attr(n, "signatures")
    IN IF Truthy(signatures_raw) THEN Join(", ", signatures_raw.v) ELSE "Anonymous"

\* The header: author line, date line, blank line.
HeaderLines(n, lvl, offset) ==
    LET indent == Repeat("  ", lvl)
        cdate == _get_attr(n, "cdate")
        date_str == IF Truthy(cdate)
                    THEN FormatTimestamp(cdate.v, "%Y-%m-%d %H:%M:%S", offset)
                    ELSE "Unknown date"
    IN << indent \o "## Comment by " \o Signatures(n),
          indent \o "**Date:** " \o date_str,
          "" >>

\* The Title line without the level > 0 test.
TitleLinesAtAnyLevel(content, lvl) ==
    LET indent == Repeat("  ", lvl)
    IN IF "title" \in DOMAIN content
       THEN LET title_value == _extract_value(content["title"])
            IN IF Truthy(title_value)
               THEN <<indent \o "**Title:** " \o Str(title_value), "">>
               ELSE <<>>
       ELSE <<>>

\* if "title" in content and level > 0: the Title line and a blank line.
TitleLines(content, lvl) ==
    LET indent == Repeat("  ", lvl)
    IN IF "title" \in DOMAIN content /\ lvl > 0
       THEN LET title_value == _extract_value(content["title"])
            IN IF Truthy(title_value)
               THEN <<indent \o "**Title:** " \o Str(title_value), "">>
               ELSE <<>>
       ELSE <<>>

\* One of comment, review, summary, response: the label, a blank line, the
\* value's lines indented, a blank line.  value.split raises AttributeError
\* when the extracted value is not a string.
MainFieldLines(content, field_name, lvl) ==
    LET indent == Repeat("  ", lvl)
    IN IF field_name \in DOMAIN content
       THEN LET field_value == _extract_value(content[field_name])
            IN IF Truthy(field_value)
               THEN IF field_value.t # "str"
                    THEN Raise("AttributeError")
                    ELSE Return(<<indent \o "**" \o Title(field_name) \o ":**", "">>
                                \o Indented(indent, Split(field_value.v, "\n"))
                                \o <<"">>)
               ELSE Return(<<>>)
       ELSE Return(<<>>)

\* One of rating, confidence, strengths, weaknesses, questions: one line and a
\* blank line.
OtherFieldLines(content, field_name, lvl) ==
    LET indent == Repeat("  ", lvl)
    IN IF field_name \in DOMAIN content
       THEN LET field_value == _extract_value(content[field_name])
            IN IF Truthy(field_value)
               THEN << indent \o "**" \o Title(Replace(field_name, "_", " "))
                              \o ":** " \o Str(field_value), "" >>
               ELSE <<>>
       ELSE <<>>

MainFields == <<"comment", "review", "summary", "response">>
OtherFields == <<"rating", "confidence", "strengths", "weaknesses", "questions">>

RECURSIVE MainFieldsFrom(_, _, _)
MainFieldsFrom(content, lvl, i) ==
    IF i > Len(MainFields) THEN Return(<<>>)
    ELSE Then(MainFieldLines(content, MainFields[i], lvl),
              MainFieldsFrom(content, lvl, i + 1))

RECURSIVE OtherFieldsFrom(_, _, _)
OtherFieldsFrom(content, lvl, i) ==
    IF i > Len(OtherFields) THEN <<>>
    ELSE OtherFieldLines(content, OtherFields[i], lvl)
         \o OtherFieldsFrom(content, lvl, i + 1)

\* if content: title, main content fields, other relevant fields.
ContentLines(n, lvl) ==
    LET content == _get_attr(n, "content")
    IN IF Truthy(content)
       THEN Then(Return(TitleLines(content.v, lvl)),
                 Then(MainFieldsFrom(content.v, lvl, 1),
                      Return(OtherFieldsFrom(content.v, lvl, 1))))
       ELSE Return(<<>>)

\* format_note(note, include_replies, level): the Markdown text, or the
\* exception raised.
RECURSIVE format_note(_, _, _, _)
RECURSIVE FormatReplies(_, _, _, _)
RECURSIVE FormatRepliesShallow(_, _, _, _)

\* The loop over the replies calling format_note without include_replies: the
\* replies of a reply are left out.
FormatRepliesShallow(replies, i, lvl, offset) ==
    IF i > Len(replies) THEN Return(<<>>)
    ELSE LET reply_md == format_note(replies[i], FALSE, lvl + 1, offset)
         IN IF reply_md.exc # "" THEN reply_md
            ELSE Then(Return(<<reply_md.v>>),
                      FormatRepliesShallow(replies, i + 1, lvl, offset))

\* for reply in replies: markdown_lines.append(format_note(reply, True, level + 1))
FormatReplies(replies, i, lvl, offset) ==
    IF i > Len(replies) THEN Return(<<>>)
    ELSE LET reply_md == format_note(replies[i], TRUE, lvl + 1, offset)
         IN IF reply_md.exc # "" THEN reply_md
            ELSE Then(Return(<<reply_md.v>>), FormatReplies(replies, i + 1, lvl, offset))

format_note(n, incl, lvl, offset) ==
    LET indent == Repeat("  ", lvl)
        details == _get_attr(n, "details")
        replies == IF incl /\ Truthy(details)
                   THEN DictGet(details.v, "directReplies")
                   ELSE PyNone
        reply_lines == IF Truthy(replies)
                       THEN Then(Return(<<indent \o "### Replies:", "">>),
                                 FormatReplies(replies.v, 1, lvl, offset))
                       ELSE Return(<<>>)
        markdown_lines == Then(Return(HeaderLines(n, lvl, offset)),
                               Then(ContentLines(n, lvl),
                                    Then(reply_lines,
                                         Return(<<indent \o "---", "">>))))
    IN IF markdown_lines.exc # "" THEN markdown_lines
       ELSE Return(Join("\n", markdown_lines.v))

(***************************************************************************)
(* The Reply Index and the whole-thread render                             *)
(***************************************************************************)
\* The sort key of both sorts: n.cdate if n.cdate else 0.
CdateKey(n) ==
    LET cdate == _get_attr(n, "cdate")
    IN IF Truthy(cdate) THEN cdate.v ELSE 0

\* The sort with the comparison turned around: latest first.
InsertByCdateDescending(sorted, n) ==
    LET k == Cardinality({i \in 1..Len(sorted) : CdateKey(sorted[i]) >= CdateKey(n)})
    IN SubSeq(sorted, 1, k) \o <<n>> \o SubSeq(sorted, k + 1, Len(sorted))

\* One step of a stable sort: n goes behind every element whose key is not
\* larger than its own.
InsertByCdate(sorted, n) ==
    LET k == Cardinality({i \in 1..Len(sorted) : CdateKey(sorted[i]) <= CdateKey(n)})
    IN SubSeq(sorted, 1, k) \o <<n>> \o SubSeq(sorted, k + 1, Len(sorted))

\* sorted(ns, key=CdateKey) and list.sort(key=CdateKey): ascending and stable.
RECURSIVE SortByCdateFrom(_, _, _)
SortByCdateFrom(ns, i, sorted) ==
    IF i > Len(ns) THEN sorted
    ELSE SortByCdateFrom(ns, i + 1, InsertByCdate(sorted, ns[i]))

SortByCdate(ns) == SortByCdateFrom(ns, 1, <<>>)

\* getattr(note, "replyto", None): a key/value record has no such attribute.
Replyto(n) == IF n.kind = "Note" THEN _get_attr(n, "replyto") ELSE PyNone

\* An index whose entry is overwritten, not appended to: only the last reply
\* to parent_id is kept.
RepliesToLast(ns, parent_id, i) ==
    LET all == {j \in i..Len(ns) : Truthy(Replyto(ns[j])) /\ Replyto(ns[j]).v = parent_id}
    IN IF all = {} THEN <<>> ELSE <<ns[CHOOSE j \in all : \A x \in all : x <= j]>>

\* An index that files every reply under every parent id: the notes of ns
\* that have a replyto, whatever it is.
RECURSIVE RepliesToAnyone(_, _, _)
RepliesToAnyone(ns, parent_id, i) ==
    IF i > Len(ns) THEN <<>>
    ELSE (IF Truthy(Replyto(ns[i])) THEN <<ns[i]>> ELSE <<>>)
         \o RepliesToAnyone(ns, parent_id, i + 1)

\* The notes of ns whose replyto is parent_id, in the order of ns.
RECURSIVE RepliesTo(_, _, _)
RepliesTo(ns, parent_id, i) ==
    IF i > Len(ns) THEN <<>>
    ELSE (IF Truthy(Replyto(ns[i])) /\ Replyto(ns[i]).v = parent_id
          THEN <<ns[i]>> ELSE <<>>)
         \o RepliesTo(ns, parent_id, i + 1)

\* _build_children_map(notes): parent id -> its replies, sorted by date.  The
\* keys are the replyto values that occur.
_build_children_map(ns) ==
    LET keys == {Replyto(ns[i]).v : i \in {j \in 1..Len(ns) : Truthy(Replyto(ns[j]))}}
    IN [parent_id \in keys |-> SortByCdate(RepliesTo(ns, parent_id, 1))]

\* children_map.get(note_id, []) if note_id else []
ChildrenOf(children_map, note_id) ==
    IF Truthy(note_id) /\ note_id.v \in DOMAIN children_map
    THEN children_map[note_id.v]
    ELSE <<>>

\* The depth of nested calls at which Python gives up with RecursionError
\* (sys.getrecursionlimit(), scaled down to the size of the model's threads).
RecursionLimit == 6

\* The recursive render taking the replies from the inline reply summary
\* (details.directReplies), not from children_map.
FormatNoteFromSummary(n, children_map, lvl, offset) == format_note(n, TRUE, lvl, offset)

\* _format_note_recursive(note, children_map, level)
RECURSIVE _format_note_recursive(_, _, _, _)
RECURSIVE FormatChildren(_, _, _, _, _)

\* The replies of a note rendered one level deep only: each by format_note
\* without replies, not by _format_note_recursive.
FormatChildrenOneLevel(replies, i, children_map, lvl, offset) ==
    FormatRepliesShallow(replies, i, lvl, offset)

FormatChildren(replies, i, children_map, lvl, offset) ==
    IF i > Len(replies) THEN Return(<<>>)
    ELSE LET reply_md == _format_note_recursive(replies[i], children_map, lvl + 1, offset)
         IN IF reply_md.exc # "" THEN reply_md
            ELSE Then(Return(<<reply_md.v>>),
                      FormatChildren(replies, i + 1, children_map, lvl, offset))

_format_note_recursive(n, children_map, lvl, offset) ==
    IF lvl > RecursionLimit THEN Raise("RecursionError")
    ELSE
    LET indent == Repeat("  ", lvl)
        replies == ChildrenOf(children_map, _get_attr(n, "id"))
        reply_lines == IF Len(replies) > 0
                       THEN Then(Return(<<indent \o "### Replies:", "">>),
                                 FormatChildren(replies, 1, children_map, lvl, offset))
                       ELSE Return(<<>>)
        markdown_lines == Then(Return(HeaderLines(n, lvl, offset)),
                               Then(ContentLines(n, lvl),
                                    Then(reply_lines,
                                         Return(<<indent \o "---", "">>))))
    IN IF markdown_lines.exc # "" THEN markdown_lines
       ELSE Return(Join("\n", markdown_lines.v))

\* The search for the main submission without its break: the last note
\* without a replyto.
MainSubmissionIndexLast(sorted_notes) ==
    LET roots == {i \in 1..Len(sorted_notes) : ~Truthy(Replyto(sorted_notes[i]))}
    IN IF roots = {} THEN 0 ELSE CHOOSE i \in roots : \A j \in roots : j <= i

\* The search for the main submission falling back on the first note when
\* every note has a replyto.
MainSubmissionIndexFallback(sorted_notes) ==
    LET roots == {i \in 1..Len(sorted_notes) : ~Truthy(Replyto(sorted_notes[i]))}
    IN IF roots = {} THEN (IF Len(sorted_notes) > 0 THEN 1 ELSE 0)
       ELSE CHOOSE i \in roots : \A j \in roots : i <= j

\* The main submission: the position in sorted_notes of the first note
\* without a replyto, 0 when there is none.
MainSubmissionIndex(sorted_notes) ==
    LET roots == {i \in 1..Len(sorted_notes) : ~Truthy(Replyto(sorted_notes[i]))}
    IN IF roots = {} THEN 0 ELSE CHOOSE i \in roots : \A j \in roots : i <= j

\* The top-level comments rendered by format_note with their inline reply
\* summaries, not by _format_note_recursive with children_map.
RECURSIVE FormatTopLevelBySummary(_, _, _, _)
FormatTopLevelBySummary(top_level_comments, i, children_map, offset) ==
    IF i > Len(top_level_comments) THEN Return(<<>>)
    ELSE LET md == format_note(top_level_comments[i], TRUE, 0, offset)
         IN IF md.exc # "" THEN md
            ELSE Then(Return(<<md.v>>),
                      FormatTopLevelBySummary(top_level_comments, i + 1, children_map, offset))

\* for note in top_level_comments: _format_note_recursive(note, children_map, 0)
RECURSIVE FormatTopLevel(_, _, _, _)
FormatTopLevel(top_level_comments, i, children_map, offset) ==
    IF i > Len(top_level_comments) THEN Return(<<>>)
    ELSE LET md == _format_note_recursive(top_level_comments[i], children_map, 0, offset)
         IN IF md.exc # "" THEN md
            ELSE Then(Return(<<md.v>>),
                      FormatTopLevel(top_level_comments, i + 1, children_map, offset))

\* The document's first lines: title heading, count line, rule.
DocumentHead(ns, title) ==
    << "# " \o title, "", "**Total Comments:** " \o ToString(Len(ns)), "", "---", "" >>

\* format_all_notes(notes, submission_title).  The sort key reads n.cdate,
\* which a key/value record does not have.
format_all_notes(ns, title, offset) ==
    IF \E i \in 1..Len(ns) : ns[i].kind # "Note" THEN Raise("AttributeError")
    ELSE
    LET head == DocumentHead(ns, title)
        sorted_notes == SortByCdate(ns)
        children_map == _build_children_map(sorted_notes)
        m == MainSubmissionIndex(sorted_notes)
        main_md == format_note(sorted_notes[m], FALSE, 0, offset)
        main_lines == IF m = 0 THEN Return(<<>>)
                      ELSE IF main_md.exc # "" THEN main_md
                      ELSE Return(<<"# Main Submission", "", main_md.v, "">>)
        top_level_comments ==
            IF m # 0 THEN ChildrenOf(children_map, _get_attr(sorted_notes[m], "id"))
            ELSE <<>>
        markdown_lines ==
            Then(Return(head),
                 Then(main_lines,
                      Then(Return(<<"# Comments and Reviews", "">>),
                           FormatTopLevel(top_level_comments, 1, children_map, offset))))
    IN IF markdown_lines.exc # "" THEN markdown_lines
       ELSE Return(Join("\n", markdown_lines.v))

\* format_note_to_file sanitizing and returning the suggested filename when
\* one is given.
FormatNoteToFileSuggested(n, suggested, offset) ==
    LET markdown == format_note(n, TRUE, 0, offset)
        date_str == IF Truthy(_get_attr(n, "cdate"))
                    THEN FormatTimestamp(_get_attr(n, "cdate").v, "%Y%m%d", offset)
                    ELSE "unknown"
        safe_filename ==
            IF suggested # ""
            THEN Replace(Replace(suggested, "/", "_"), " ", "_")
            ELSE date_str \o "_"
                 \o Replace(Replace(Signatures(n), "/", "_"), " ", "_") \o ".md"
    IN IF markdown.exc # "" THEN markdown
       ELSE Return(<<markdown.v, safe_filename>>)

\* format_note_to_file(note, filename): <<markdown, safe_filename>>.
format_note_to_file(n, suggested, offset) ==
    LET signatures == Signatures(n)
        cdate == _get_attr(n, "cdate")
        date_str == IF Truthy(cdate)
                    THEN FormatTimestamp(cdate.v, "%Y%m%d", offset)
                    ELSE "unknown"
        safe_filename == date_str \o "_"
                         \o Replace(Replace(signatures, "/", "_"), " ", "_") \o ".md"
        markdown == format_note(n, TRUE, 0, offset)
    IN IF markdown.exc # "" THEN markdown
       ELSE Return(<<markdown.v, safe_filename>>)

(***************************************************************************)
(* Inputs                                                                  *)
(***************************************************************************)
\* The longest list of notes given to format_all_notes and _build_children_map.
MaxNotes == 4

\* The deepest level format_note is called with.
MaxLevel == 2

\* A node with the five attributes the formatter reads.
Node(kind, id, signatures, cdate, replyto, content, details) ==
    [kind |-> kind,
     a |-> [id |-> id, signatures |-> signatures, cdate |-> cdate,
            replyto |-> replyto, content |-> content, details |-> details]]

NoNote == [kind |-> "Note", a |-> EmptyMap]

NodeId(i) == "n" \o ToString(i)

\* The note at position i of a thread: a structured record whose signature,
\* title and comment name its position.
ThreadNode(i, replyto, cdate) ==
    Node("Note", PyStr(NodeId(i)), PyList(<<"N" \o ToString(i)>>), cdate, replyto,
         PyDict([title |-> PyStr("T" \o ToString(i)),
                 comment |-> PyDict([value |-> PyStr("c" \o ToString(i))])]),
         PyNone)

\* What a note of a thread of k notes replies to: nothing, a note of the list
\* (itself and later ones included), or an id that is not in the list.
Parents(k) == {PyNone, PyStr("zz")} \cup {PyStr(NodeId(j)) : j \in 1..k}

\* How the notes of a thread of k notes are dated: against list order (the
\* last one at 0), or every other one at one date and the rest not at all.
\* The lists with summaries or a shared id are dated in list order.
DateRules == {"descending", "alternate"}

ThreadCdate(rule, i, k) ==
    CASE rule = "ascending" -> PyInt(1000 * i)
      [] rule = "descending" -> PyInt(1000 * (k - i))
      [] rule = "alternate" -> IF i % 2 = 1 THEN PyInt(1000) ELSE PyNone

\* The thread of k notes with the parents p, dated by rule.
Thread(k, p, rule) == [i \in 1..k |-> ThreadNode(i, p[i], ThreadCdate(rule, i, k))]

\* A structured record followed by a key/value record.
MixedThread ==
    << ThreadNode(1, PyNone, PyNone),
       [kind |-> "dict", a |-> ThreadNode(2, PyStr(NodeId(1)), PyNone).a] >>

\* The longest list of notes whose notes carry inline reply summaries.
MaxSummaryNotes == 2

\* The inline reply summaries of the notes of a thread: none, two replies that
\* are not in the list, and a reply whose comment is a wrapped number.
SummaryChoices ==
    LET s1 == Node("dict", PyStr("s1"), PyList(<<"S1">>), PyNone, PyNone,
                   PyDict([comment |-> PyDict([value |-> PyStr("summary 1")])]),
                   PyDict(EmptyMap))
        s2 == Node("Note", PyStr("s2"), PyList(<<"S2">>), PyNone, PyNone,
                   PyDict([comment |-> PyDict([value |-> PyStr("summary 2")])]),
                   PyDict([directReplies |-> PyList(<<s1>>)]))
        s3 == Node("Note", PyStr("s3"), PyList(<<"S3">>), PyNone, PyNone,
                   PyDict([comment |-> PyDict([value |-> PyInt(5)])]), PyNone)
    IN {PyNone,
        PyDict([replyCount |-> PyInt(2), directReplies |-> PyList(<<s2, s1>>)]),
        PyDict([directReplies |-> PyList(<<s3>>)])}

\* The thread of k notes with the parents p, dated in list order, note i
\* carrying the details d[i].
SummaryThread(k, p, d) ==
    [i \in 1..k |-> [Thread(k, p, "ascending")[i] EXCEPT !.a.details = d[i]]]

\* The longest list of notes two of which carry the same id.
MaxTwinNotes == 3

\* The thread of k notes with the parents p, dated in list order, in which
\* note i carries the id of note j.
TwinThread(k, p, i, j) ==
    [x \in 1..k |-> IF x = i
                    THEN [Thread(k, p, "ascending")[x] EXCEPT !.a.id = PyStr(NodeId(j))]
                    ELSE Thread(k, p, "ascending")[x]]

Titles == {"OpenReview Comments", "Test Paper"}

\* Field Values: raw scalars, lists, and wrapped forms around each of them.
Texts == {"", "x", "A &amp; B", "l1\nl2", "It&#39;s &lt;b&gt;"}

Scalars ==
    {PyNone, PyInt(0), PyInt(42), PyInt(-7), PyBool(TRUE), PyBool(FALSE)}
    \cup {PyStr(s) : s \in Texts}

Lists == {PyList(<<>>), PyList(<<PyStr("a"), PyStr("b")>>)}

Inner == Scalars \cup Lists \cup {PyDict([value |-> PyStr("x")])}

Wrapped ==
    {PyDict([value |-> x]) : x \in Inner}
    \cup {PyDict([value |-> PyStr(s), readers |-> PyList(<<PyStr("everyone")>>)]) : s \in Texts}
    \cup {PyDict(EmptyMap), PyDict([readers |-> PyStr("x")])}

FieldValues == Scalars \cup Lists \cup Wrapped

\* Contents: none, empty, and one field of each of the three kinds of field
\* (title, a main content field, another relevant field) with each Field Value.
Contents ==
    {PyNone, PyDict(EmptyMap)}
    \cup {PyDict([title |-> f]) : f \in FieldValues}
    \cup {PyDict([comment |-> f]) : f \in FieldValues}
    \cup {PyDict([rating |-> f]) : f \in FieldValues}
    \cup {PyDict([title |-> PyDict([value |-> PyStr("T")]),
                  review |-> PyDict([value |-> PyStr("Good paper")]),
                  rating |-> f,
                  abstract |-> PyStr("ignored")]) : f \in Scalars}

SimpleContent ==
    PyDict([title |-> PyStr("T0"), review |-> PyDict([value |-> PyStr("Good paper")])])

Kinds == {"Note", "dict"}

SignatureChoices ==
    {PyNone, PyList(<<>>), PyList(<<"Reviewer ABC">>), PyList(<<"A/B C", "D">>)}

\* 1970-01-02 00:00:00 UTC and 1970-01-20 23:59:59.999 UTC, in milliseconds.
CdateChoices == {PyNone, PyInt(0), PyInt(86400000), PyInt(1727999999)}

\* Offsets of the local time zone from UTC, in seconds.
TzOffsets == {0, 0 - 18000, 19800}

\* A reply of an inline reply summary: signature Rk, a title and a comment.
Reply(kind, k, content, details) ==
    Node(kind, PyStr("r" \o ToString(k)), PyList(<<"R" \o ToString(k)>>), PyNone,
         PyNone, content, details)

ReplyContent(k) ==
    PyDict([title |-> PyStr("RT" \o ToString(k)),
            comment |-> PyDict([value |-> PyStr("reply " \o ToString(k))])])

\* details: missing, empty, without or with an empty directReplies, one reply,
\* two replies of both kinds, a reply with replies of its own, and a reply
\* whose comment is a wrapped number.
DetailChoices ==
    LET r1 == Reply("dict", 1, ReplyContent(1), PyDict(EmptyMap))
        r2 == Reply("Note", 2, ReplyContent(2), PyNone)
        r3 == Reply("dict", 3, ReplyContent(3), PyDict([directReplies |-> PyList(<<r2, r1>>)]))
        r4 == Reply("Note", 4, PyDict([comment |-> PyDict([value |-> PyInt(5)])]), PyNone)
    IN {PyNone, PyDict(EmptyMap), PyDict([replyCount |-> PyInt(1)]),
        PyDict([directReplies |-> PyList(<<>>)]),
        PyDict([directReplies |-> PyList(<<r1>>)]),
        PyDict([directReplies |-> PyList(<<r2, r1>>)]),
        PyDict([directReplies |-> PyList(<<r3, r2>>)]),
        PyDict([directReplies |-> PyList(<<r1, r4>>)])}

Filenames == {"", "out.md", "my note/1"}

(***************************************************************************)
(* The state machine: a call with its arguments, then its outcome          *)
(***************************************************************************)
NoThread == /\ notes = <<>> /\ submission_title = "OpenReview Comments"
NoSingle == /\ note = NoNote /\ include_replies = TRUE /\ level = 0 /\ filename = ""

InitExtractValue ==
    /\ op = "_extract_value"
    /\ field \in FieldValues
    /\ NoThread /\ NoSingle /\ tz = 0

InitBuildChildrenMap ==
    /\ op = "_build_children_map"
    /\ \E k \in 0..MaxNotes : \E p \in [1..k -> Parents(k)], rule \in DateRules :
          notes = Thread(k, p, rule)
    /\ submission_title = "OpenReview Comments"
    /\ NoSingle /\ field = PyNone /\ tz = 0

InitFormatAllNotes ==
    /\ op = "format_all_notes"
    /\ \/ /\ \E k \in 0..MaxNotes : \E p \in [1..k -> Parents(k)], rule \in DateRules :
               notes = Thread(k, p, rule)
          /\ submission_title = "OpenReview Comments"
       \/ /\ \E k \in 0..1 : \E p \in [1..k -> Parents(k)] : notes = Thread(k, p, "ascending")
          /\ submission_title = "Test Paper"
       \/ /\ notes = MixedThread
          /\ submission_title = "OpenReview Comments"
       \/ /\ \E k \in 1..MaxSummaryNotes :
               \E p \in [1..k -> Parents(k)], d \in [1..k -> SummaryChoices] :
                  /\ \E i \in 1..k : d[i] # PyNone
                  /\ notes = SummaryThread(k, p, d)
          /\ submission_title = "OpenReview Comments"
    /\ NoSingle /\ field = PyNone /\ tz = 0

\* The single nodes: every header with a plain content and every reply
\* summary, and every content under one header.
SingleNode(n) ==
    \/ \E kind \in Kinds, s \in SignatureChoices, c \in CdateChoices, d \in DetailChoices :
          n = Node(kind, PyStr("id0"), s, c, PyNone, SimpleContent, d)
    \/ \E kind \in Kinds, content \in Contents :
          n = Node(kind, PyStr("id0"), PyList(<<"Reviewer ABC">>), PyInt(86400000),
                   PyNone, content, PyNone)

InitFormatNote ==
    /\ op = "format_note"
    /\ SingleNode(note)
    /\ include_replies \in BOOLEAN
    /\ level \in 0..MaxLevel
    /\ tz \in TzOffsets
    /\ filename = "" /\ field = PyNone /\ NoThread

InitFormatNoteToFile ==
    /\ op = "format_note_to_file"
    /\ SingleNode(note)
    /\ filename \in Filenames
    /\ tz \in TzOffsets
    /\ include_replies = TRUE /\ level = 0 /\ field = PyNone /\ NoThread

Init ==
    /\ pc = "call"
    /\ result = Return("")
    /\ \/ InitExtractValue
       \/ InitBuildChildrenMap
       \/ InitFormatNote
       \/ InitFormatAllNotes
       \/ InitFormatNoteToFile

Inputs == <<op, notes, submission_title, note, include_replies, level, filename, field, tz>>

ExtractValue ==
    /\ pc = "call" /\ op = "_extract_value"
    /\ result' = Return(_extract_value(field))
    /\ pc' = "done"
    /\ UNCHANGED Inputs

BuildChildrenMap ==
    /\ pc = "call" /\ op = "_build_children_map"
    /\ result' = Return(_build_children_map(notes))
    /\ pc' = "done"
    /\ UNCHANGED Inputs

FormatNote ==
    /\ pc = "call" /\ op = "format_note"
    /\ result' = format_note(note, include_replies, level, tz)
    /\ pc' = "done"
    /\ UNCHANGED Inputs

FormatAllNotes ==
    /\ pc = "call" /\ op = "format_all_notes"
    /\ result' = format_all_notes(notes, submission_title, tz)
    /\ pc' = "done"
    /\ UNCHANGED Inputs

FormatNoteToFile ==
    /\ pc = "call" /\ op = "format_note_to_file"
    /\ result' = format_note_to_file(note, filename, tz)
    /\ pc' = "done"
    /\ UNCHANGED Inputs

Next ==
    \/ ExtractValue
    \/ BuildChildrenMap
    \/ FormatNote
    \/ FormatAllNotes
    \/ FormatNoteToFile

Spec == Init /\ [][Next]_vars

\* The lists in which two notes carry the same id, given to format_all_notes
\* and to _build_children_map.
InitTwinThreads ==
    /\ op \in {"format_all_notes", "_build_children_map"}
    /\ \E k \in 2..MaxTwinNotes :
          \E p \in [1..k -> Parents(k)], i \in 1..k, j \in 1..k :
             i # j /\ notes = TwinThread(k, p, i, j)
    /\ submission_title = "OpenReview Comments"
    /\ NoSingle /\ field = PyNone /\ tz = 0

\* The calls of Spec, the Reply Index being built for the lists with a shared
\* id.
InitSharedIds ==
    /\ pc = "call"
    /\ result = Return("")
    /\ \/ InitExtractValue
       \/ InitFormatNote
       \/ InitFormatAllNotes
       \/ InitFormatNoteToFile
       \/ InitTwinThreads

SpecSharedIds == InitSharedIds /\ [][Next]_vars

(***************************************************************************)
(* Reading a rendered document                                             *)
(***************************************************************************)
Done(name) == pc = "done" /\ op = name

\* The lines of the text the call returned.
OutLines == Split(result.v, "\n")

\* The number of spaces a line starts with.
RECURSIVE LeadingSpaces(_, _)
LeadingSpaces(s, i) ==
    IF i <= Len(s) /\ Char(s, i) = " " THEN LeadingSpaces(s, i + 1) ELSE i - 1

LStrip(s) == From(s, LeadingSpaces(s, 1) + 1)

\* The positions among lines, after position from, of the header of the
\* comment signed who, at any indentation.
HeaderPos(lines, who, from) ==
    {i \in (from + 1)..Len(lines) : LStrip(lines[i]) = "## Comment by " \o who}

\* The positions of the comment headers among lines after position from.
AnyHeaderPos(lines, from) ==
    {i \in (from + 1)..Len(lines) : StartsWithAt(LStrip(lines[i]), "## Comment by ", 1)}

\* The position of a line that occurs in lines, 0 when it does not occur.
LinePos(lines, line) ==
    IF \E i \in 1..Len(lines) : lines[i] = line
    THEN CHOOSE i \in 1..Len(lines) : lines[i] = line /\ \A j \in 1..(i - 1) : lines[j] # line
    ELSE 0

(***************************************************************************)
(* The thread as its parent pointers describe it                           *)
(***************************************************************************)
\* The signature that names the note at position i of a thread.
Who(i) == "N" \o ToString(i)

HasParent(n) == n.a.replyto.t = "str" /\ n.a.replyto.v # ""

\* created_at as the sorts read it: a missing timestamp counts as 0.
Created(n) == IF n.a.cdate.t = "int" THEN n.a.cdate.v ELSE 0

\* i comes before j in ascending created_at order, equal timestamps in list order.
Earlier(ns, i, j) ==
    \/ Created(ns[i]) < Created(ns[j])
    \/ Created(ns[i]) = Created(ns[j]) /\ i < j

\* The position in ns of the first node, in that order, without a parent_id;
\* 0 when every node has one.
SelectedRoot(ns) ==
    LET parentless == {i \in 1..Len(ns) : ~HasParent(ns[i])}
    IN IF parentless = {} THEN 0
       ELSE CHOOSE r \in parentless : \A j \in parentless \ {r} : Earlier(ns, r, j)

\* Node i is a direct reply to node a.
ReplyOf(ns, i, a) == HasParent(ns[i]) /\ ns[i].a.replyto.v = ns[a].a.id.v

\* The parent_id chain of node i leads to node a in at most fuel steps.
RECURSIVE LeadsTo(_, _, _, _)
LeadsTo(ns, i, a, fuel) ==
    /\ fuel > 0
    /\ \/ ReplyOf(ns, i, a)
       \/ \E j \in 1..Len(ns) : ReplyOf(ns, i, j) /\ LeadsTo(ns, j, a, fuel - 1)

\* The nodes of the tree under the selected root r.
InTree(ns, r) == {i \in 1..Len(ns) : LeadsTo(ns, i, r, Len(ns))}

\* A whole-thread render that returned a document.
Rendered == Done("format_all_notes") /\ result.exc = ""

\* Where the Comments and Reviews section starts in the document.
SectionStart(lines) == LinePos(lines, "# Comments and Reviews")

(***************************************************************************)
(* C1: in a whole-thread render with a selected root, every node whose     *)
(* parent_id chain leads to the root, at any depth, has its comment block  *)
(* in the Comments and Reviews section, although no node has an inline     *)
(* reply summary.                                                          *)
(***************************************************************************)
C1_DescendantsRendered ==
    (Rendered /\ SelectedRoot(notes) # 0) =>
        LET lines == OutLines
            start == SectionStart(lines)
        IN /\ start # 0
           /\ \A i \in InTree(notes, SelectedRoot(notes)) :
                 HeaderPos(lines, Who(i), start) # {}

\* A thread with a reply to a reply to a reply of the root, rendered.
C1_Witness ==
    /\ Rendered /\ SelectedRoot(notes) # 0
    /\ \E i, j, k \in 1..Len(notes) :
          /\ ReplyOf(notes, i, j) /\ ReplyOf(notes, j, k)
          /\ ReplyOf(notes, k, SelectedRoot(notes))
          /\ \A n \in 1..Len(notes) : notes[n].a.details = PyNone

(***************************************************************************)
(* C2: the comments come in depth-first pre-order.  Of two siblings in the *)
(* tree the one created earlier comes first, and every node under a node   *)
(* comes after that node's own content and before the block of a sibling   *)
(* created later.                                                          *)
(***************************************************************************)
C2_DepthFirstPreOrder ==
    (Rendered /\ SelectedRoot(notes) # 0) =>
        LET lines == OutLines
            start == SectionStart(lines)
            tree == InTree(notes, SelectedRoot(notes))
            pos == [i \in tree |-> CHOOSE x \in HeaderPos(lines, Who(i), start) : TRUE]
            content == [i \in tree |->
                           LinePos(lines, Repeat(" ", LeadingSpaces(lines[pos[i]], 1))
                                          \o "c" \o ToString(i))]
        IN /\ \A i \in tree : Cardinality(HeaderPos(lines, Who(i), start)) = 1
           /\ \A i \in tree : pos[i] < content[i]
           /\ \A a \in tree, g \in tree :
                 LeadsTo(notes, g, a, Len(notes)) => content[a] < pos[g]
           /\ \A a \in tree, b \in tree :
                 (/\ notes[a].a.replyto = notes[b].a.replyto
                  /\ Created(notes[a]) < Created(notes[b]))
                 => /\ pos[a] < pos[b]
                    /\ \A g \in tree :
                          LeadsTo(notes, g, a, Len(notes)) => pos[g] < pos[b]

\* A rendered thread in which a grandchild of the root was created later than
\* the next sibling of its parent.
C2_Witness ==
    /\ Rendered /\ SelectedRoot(notes) # 0
    /\ \E a, b, g \in 1..Len(notes) :
          /\ ReplyOf(notes, a, SelectedRoot(notes))
          /\ ReplyOf(notes, b, SelectedRoot(notes))
          /\ ReplyOf(notes, g, a)
          /\ Created(notes[a]) < Created(notes[b])
          /\ Created(notes[b]) < Created(notes[g])

(***************************************************************************)
(* C3: _build_children_map maps each id exactly to the nodes of the list   *)
(* whose parent_id is that id, each once; a node without a parent_id is in *)
(* no sequence, an id without replies is no key; and each sequence is in   *)
(* ascending created_at order, a missing timestamp counting as 0.          *)
(***************************************************************************)
C3_ChildrenMapExact ==
    Done("_build_children_map") =>
        LET children_map == result.v
            ids == {notes[i].a.replyto.v : i \in {j \in 1..Len(notes) : HasParent(notes[j])}}
            repliesTo(id) == {i \in 1..Len(notes) :
                                 HasParent(notes[i]) /\ notes[i].a.replyto.v = id}
        IN /\ DOMAIN children_map = ids
           /\ \A id \in ids :
                 LET replies == children_map[id]
                 IN /\ Len(replies) = Cardinality(repliesTo(id))
                    /\ \A i \in repliesTo(id) : \E k \in 1..Len(replies) : replies[k] = notes[i]
                    /\ \A k \in 1..Len(replies) : HasParent(replies[k])
                    /\ \A k \in 1..(Len(replies) - 1) :
                          Created(replies[k]) <= Created(replies[k + 1])

\* A list in which a reply without a timestamp comes after a dated reply to
\* the same id: the index puts it first.
C3_Witness ==
    /\ Done("_build_children_map")
    /\ \E i, j \in 1..Len(notes) :
          /\ i < j
          /\ HasParent(notes[i]) /\ notes[i].a.replyto = notes[j].a.replyto
          /\ notes[j].a.cdate = PyNone /\ Created(notes[i]) > 0
          /\ result.v[notes[i].a.replyto.v] = <<notes[j], notes[i]>>
    /\ \E i \in 1..Len(notes) : ~HasParent(notes[i])

(***************************************************************************)
(* C4: the node under the Main Submission heading is the first node in     *)
(* ascending created_at order (missing as 0, equal timestamps in list      *)
(* order) without a parent_id; no other parentless node is treated as the  *)
(* root; the top-level comments are exactly that node's replies.           *)
(***************************************************************************)
C4_RootSelection ==
    (Rendered /\ SelectedRoot(notes) # 0) =>
        LET lines == OutLines
            r == SelectedRoot(notes)
            main == LinePos(lines, "# Main Submission")
            start == SectionStart(lines)
            top == {i \in AnyHeaderPos(lines, start) : LeadingSpaces(lines[i], 1) = 0}
        IN /\ main # 0 /\ main < start
           /\ \A i \in 1..Len(lines) : lines[i] = "# Main Submission" => i = main
           /\ lines[main + 2] = "## Comment by " \o Who(r)
           /\ AnyHeaderPos(lines, main) \cap 1..start = {main + 2}
           /\ {lines[i] : i \in top}
                 = {"## Comment by " \o Who(i) : i \in {j \in 1..Len(notes) : ReplyOf(notes, j, r)}}
           /\ Cardinality(top) = Cardinality({j \in 1..Len(notes) : ReplyOf(notes, j, r)})

\* Several nodes without a parent_id, the selected one neither the first nor
\* the last of them in the list, and with a reply.
C4_Witness ==
    /\ Rendered
    /\ \E i, j \in 1..Len(notes) :
          /\ i < SelectedRoot(notes) /\ SelectedRoot(notes) < j
          /\ ~HasParent(notes[i]) /\ ~HasParent(notes[j])
    /\ \E i \in 1..Len(notes) : ReplyOf(notes, i, SelectedRoot(notes))

(***************************************************************************)
(* C5: when no node of the list lacks a parent_id (the empty list          *)
(* included) the document has the title heading, the count line with the   *)
(* number of input nodes and the Comments and Reviews heading, but no Main *)
(* Submission section and no comment block.                                *)
(***************************************************************************)
C5_NoRootDocument ==
    (Rendered /\ SelectedRoot(notes) = 0) =>
        LET lines == OutLines
        IN /\ lines[1] = "# " \o submission_title
           /\ LinePos(lines, "**Total Comments:** " \o ToString(Len(notes))) # 0
           /\ \A i \in 1..Len(lines) :
                 StartsWithAt(lines[i], "**Total Comments:**", 1)
                 => lines[i] = "**Total Comments:** " \o ToString(Len(notes))
           /\ SectionStart(lines) # 0
           /\ LinePos(lines, "# Main Submission") = 0
           /\ AnyHeaderPos(lines, 0) = {}

\* A rendered list of several nodes, each with a parent_id.
C5_Witness ==
    /\ Rendered /\ SelectedRoot(notes) = 0
    /\ Len(notes) >= 2
    /\ \E i, j \in 1..Len(notes) : i # j /\ ReplyOf(notes, i, j)

(***************************************************************************)
(* C6: _extract_value returns a string or None and nothing else: a wrapped *)
(* form gives its inner value as a (decoded) string when that is a string  *)
(* or a number and None otherwise, a raw string gives itself, a raw number *)
(* its decimal string, and a list, nested object, boolean or null None.    *)
(***************************************************************************)
C6_ExtractValueStringOrAbsent ==
    Done("_extract_value") =>
        LET r == result.v
            asString(x) == IF x.t = "str" THEN PyStr(Unescape(x.v)) ELSE PyStr(ToString(x.v))
        IN /\ r.t \in {"str", "None"}
           /\ r = CASE field.t = "dict" ->
                         IF "value" \in DOMAIN field.v /\ field.v["value"].t \in {"str", "int"}
                         THEN asString(field.v["value"])
                         ELSE PyNone
                    [] field.t \in {"str", "int"} -> asString(field)
                    [] OTHER -> PyNone

(***************************************************************************)
(* C7: format_note, format_all_notes and format_note_to_file raise for no  *)
(* node with missing or malformed fields; a missing field is skipped or    *)
(* replaced by "Anonymous" or "Unknown date" and a result is returned.     *)
(***************************************************************************)
C7_NeverRaises ==
    (/\ pc = "done"
     /\ \/ op \in {"format_note", "format_note_to_file"}
        \/ op = "format_all_notes" /\ \A i \in 1..Len(notes) : notes[i].kind = "Note")
    => /\ result.exc = ""
       /\ op = "format_note" =>
             LET lines == OutLines
                 indent == Repeat("  ", level)
             IN /\ ~Truthy(note.a.signatures) => lines[1] = indent \o "## Comment by Anonymous"
                /\ ~Truthy(note.a.cdate) => lines[2] = indent \o "**Date:** Unknown date"

(***************************************************************************)
(* The inline reply summary of a node                                      *)
(***************************************************************************)
\* The replies details.directReplies lists, none when it is missing.
Listed(n) ==
    IF n.a.details.t = "dict" /\ "directReplies" \in DOMAIN n.a.details.v
    THEN n.a.details.v["directReplies"].v
    ELSE <<>>

\* The header lines of the listed replies of n and of their listed replies,
\* in listed order, a reply of a node at depth lvl being at depth lvl + 1.
RECURSIVE ListedHeaders(_, _)
RECURSIVE ListedHeadersFrom(_, _, _)
ListedHeadersFrom(replies, i, lvl) ==
    IF i > Len(replies) THEN <<>>
    ELSE << Repeat("  ", lvl + 1) \o "## Comment by " \o replies[i].a.signatures.v[1] >>
         \o ListedHeaders(replies[i], lvl + 1)
         \o ListedHeadersFrom(replies, i + 1, lvl)

ListedHeaders(n, lvl) == ListedHeadersFrom(Listed(n), 1, lvl)

\* The lines of a sequence of lines at the positions of a set, in order.
RECURSIVE Pick(_, _)
Pick(lines, at) ==
    IF at = {} THEN <<>>
    ELSE LET i == CHOOSE x \in at : \A y \in at : x <= y
         IN <<lines[i]>> \o Pick(lines, at \ {i})

\* A single-node render that returned a text.
Formatted == Done("format_note") /\ result.exc = ""

(***************************************************************************)
(* C8: format_note with include_replies renders, under "### Replies:",     *)
(* every reply the node's details.directReplies lists, in listed order,    *)
(* each at depth + 1 and with its own listed replies, structured records   *)
(* and key/value records alike; without include_replies, or with an empty  *)
(* or missing reply summary, it renders no "### Replies:" and no reply.    *)
(***************************************************************************)
C8_ListedRepliesRendered ==
    Formatted =>
        LET lines == OutLines
            indent == Repeat("  ", level)
            replies == {i \in 1..Len(lines) : LStrip(lines[i]) = "### Replies:"}
        IN IF include_replies /\ Len(Listed(note)) > 0
           THEN /\ Pick(lines, AnyHeaderPos(lines, 1)) = ListedHeaders(note, level)
                /\ \E i \in replies :
                      /\ lines[i] = indent \o "### Replies:"
                      /\ \A h \in AnyHeaderPos(lines, 1) : i < h
           ELSE /\ replies = {}
                /\ AnyHeaderPos(lines, 1) = {}

\* A render, below depth 0, of a node that lists a key/value reply which
\* itself lists a structured and a key/value reply.
C8_Witness ==
    /\ Formatted /\ include_replies /\ level > 0
    /\ Len(Listed(note)) = 2
    /\ Listed(note)[1].kind = "dict"
    /\ Len(Listed(Listed(note)[1])) = 2
    /\ Listed(Listed(note)[1])[1].kind = "Note"
    /\ Cardinality(AnyHeaderPos(OutLines, 1)) = 4

(***************************************************************************)
(* C9: for a node with a title field, format_note at depth 0 emits no      *)
(* Title line, and at depth >= 1 it emits the Title line exactly when the  *)
(* extraction of the title gives a non-empty value.                        *)
(***************************************************************************)
C9_TitleLine ==
    (/\ Formatted
     /\ note.a.content.t = "dict"
     /\ "title" \in DOMAIN note.a.content.v)
    => LET lines == OutLines
           indent == Repeat("  ", level)
           titles == {i \in 1..Len(lines) : StartsWithAt(lines[i], indent \o "**Title:** ", 1)}
       IN IF level = 0
          THEN titles = {}
          ELSE titles # {} <=> Truthy(_extract_value(note.a.content.v["title"]))

\* A node whose title is a wrapped string with an entity, rendered at depth 2
\* with the decoded Title line.
C9_Witness ==
    /\ Formatted /\ level = 2
    /\ note.a.content = PyDict([title |-> PyDict([value |-> PyStr("A &amp; B")])])
    /\ OutLines[4] = "    **Title:** A & B"

(***************************************************************************)
(* The file unit as its node describes it                                  *)
(***************************************************************************)
\* s with every "/" and every space turned into "_".
Sanitized(s) ==
    LET ch(i) == IF Char(s, i) \in {"/", " "} THEN "_" ELSE Char(s, i)
    IN Join("", [i \in 1..Len(s) |-> ch(i)])

\* The authors as the header of a comment names them.
Authors(n) ==
    IF n.a.signatures.t = "list" /\ Len(n.a.signatures.v) > 0
    THEN Join(", ", n.a.signatures.v)
    ELSE "Anonymous"

\* YYYYMMDD of a timestamp in milliseconds in the zone of offset.
Yyyymmdd(ms, offset) ==
    LET dt == Civil(ms \div 1000, offset)
    IN Pad(dt.Y, 4) \o Pad(dt.m, 2) \o Pad(dt.d, 2)

(***************************************************************************)
(* C10: format_note_to_file returns the filename <date>_<authors>.md, the  *)
(* date being YYYYMMDD of created_at, or "unknown" when it is absent or    *)
(* zero, the authors the ", "-joined signatures, or "Anonymous", with each *)
(* "/" and each space replaced by "_"; the suggested filename plays no     *)
(* part; and the text is format_note(node, include_replies=true, depth 0). *)
(***************************************************************************)
C10_FileUnit ==
    (Done("format_note_to_file") /\ result.exc = "") =>
        LET date == IF note.a.cdate.t = "int" /\ note.a.cdate.v # 0
                    THEN Yyyymmdd(note.a.cdate.v, tz)
                    ELSE "unknown"
        IN /\ result.v[2] = date \o "_" \o Sanitized(Authors(note)) \o ".md"
           /\ result.v[1] = format_note(note, TRUE, 0, tz).v

\* A dated node signed "A/B C" and "D", filed under a suggested name that is
\* not the one returned, with its listed reply in the text.
C10_Witness ==
    /\ Done("format_note_to_file") /\ result.exc = ""
    /\ filename = "my note/1"
    /\ note.a.signatures = PyList(<<"A/B C", "D">>)
    /\ result.v[2] = "19700102_A_B_C,_D.md"
    /\ Len(Listed(note)) = 1
    /\ AnyHeaderPos(Split(result.v[1], "\n"), 1) # {}

(***************************************************************************)
(* The whole-thread render and the inline reply summaries                  *)
(***************************************************************************)
\* The notes of ns that carry an inline reply summary with listed replies.
Summarized(ns) == {i \in 1..Len(ns) : Listed(ns[i]) # <<>>}

\* ns with every note's details taken away.
WithoutSummaries(ns) == [i \in 1..Len(ns) |-> [ns[i] EXCEPT !.a.details = PyNone]]

\* The comment headers of a document that are signed by a reply of a summary.
SummaryHeaders(lines) ==
    {i \in 1..Len(lines) :
        \E w \in {"S1", "S2", "S3"} : StartsWithAt(LStrip(lines[i]), "## Comment by " \o w, 1)}

(***************************************************************************)
(* C11: the document of format_all_notes does not depend on any note's     *)
(* inline reply summary (details.directReplies): it is the document of the *)
(* list that differs from the given one only in having no summaries, the   *)
(* selected root's included, and no reply of a summary has a header in it. *)
(***************************************************************************)
C11_SummaryIndependent ==
    (Done("format_all_notes") /\ notes # WithoutSummaries(notes)) =>
        /\ result = format_all_notes(WithoutSummaries(notes), submission_title, tz)
        /\ result.exc = "" => SummaryHeaders(OutLines) = {}

\* A root with a summary of two replies and its reply in the list, whose own
\* summary lists a reply that format_note cannot render.
C11_Witness ==
    /\ Rendered
    /\ Len(notes) = 2
    /\ SelectedRoot(notes) = 1 /\ ReplyOf(notes, 2, 1)
    /\ Len(Listed(notes[1])) = 2 /\ Len(Listed(notes[2])) = 1
    /\ HeaderPos(OutLines, Who(2), SectionStart(OutLines)) # {}

(***************************************************************************)
(* Parent cycles in the whole-thread render                                *)
(***************************************************************************)
\* The nodes of ns that lie on a parent cycle: their parent_id chain leads
\* back to themselves (a self-referencing node after one step).
CycleMembers(ns) == {i \in 1..Len(ns) : LeadsTo(ns, i, i, Len(ns))}

\* No two nodes of ns carry the same id.
DistinctIds(ns) == \A i, j \in 1..Len(ns) : ns[i].a.id = ns[j].a.id => i = j

\* The nodes below the selected root of ns; none when no root is selected.
Reached(ns) == IF SelectedRoot(ns) = 0 THEN {} ELSE InTree(ns, SelectedRoot(ns))

\* A whole-thread render of structured records that ended, one way or the other.
Ended == Done("format_all_notes") /\ \A i \in 1..Len(notes) : notes[i].kind = "Note"

(***************************************************************************)
(* C12 as stated: a list with a self-referencing node or a circular parent *)
(* chain makes format_all_notes recurse without bound (the call ends in    *)
(* RecursionError and returns no document).                                *)
(***************************************************************************)
C12_CycleNeverTerminates ==
    (Ended /\ CycleMembers(notes) # {}) => result.exc = "RecursionError"

(***************************************************************************)
(* C12 as amended: format_all_notes recurses without bound exactly when a  *)
(* member of a parent cycle is reached from the selected root through the  *)
(* Reply Index, which takes two nodes with the same id; in a list with     *)
(* pairwise distinct ids the render returns its document, cycle or not,    *)
(* and no member of a cycle has a header in it.                            *)
(***************************************************************************)
C12_CycleReachedOnly ==
    Ended =>
        /\ result.exc \in {"", "RecursionError"}
        /\ result.exc = "RecursionError" <=> Reached(notes) \cap CycleMembers(notes) # {}
        /\ DistinctIds(notes) =>
              /\ result.exc = ""
              /\ \A lines \in {OutLines} :
                    \A i \in CycleMembers(notes) : HeaderPos(lines, Who(i), 0) = {}

\* A root, two nodes replying to each other and a node replying to itself,
\* all with ids of their own: the document is returned with the root alone.
C12_Witness ==
    /\ Rendered
    /\ DistinctIds(notes)
    /\ Len(notes) = 4
    /\ SelectedRoot(notes) = 1
    /\ ReplyOf(notes, 2, 3) /\ ReplyOf(notes, 3, 2) /\ ReplyOf(notes, 4, 4)
    /\ CycleMembers(notes) = {2, 3, 4}
    /\ HeaderPos(OutLines, Who(1), 0) # {}
    /\ AnyHeaderPos(OutLines, SectionStart(OutLines)) = {}

\* A node that carries the id of the root and replies to it: it is its own
\* reply in the Reply Index, and the render ends in RecursionError.
C12_SharedIdWitness ==
    /\ Ended
    /\ result.exc = "RecursionError"
    /\ Len(notes) = 2
    /\ notes[2].a.id = notes[1].a.id
    /\ ReplyOf(notes, 2, 1) /\ ReplyOf(notes, 2, 2)

(***************************************************************************)
(* Title lines in the whole-thread render                                  *)
(***************************************************************************)
\* The Title lines of node i of a thread in a document: every node of a
\* thread has the title T<i>.
TitlePos(lines, i) ==
    {x \in 1..Len(lines) : LStrip(lines[x]) = "**Title:** T" \o ToString(i)}

(***************************************************************************)
(* C13: in the whole-thread render the Title line is suppressed only for   *)
(* the main submission: every other rendered node with a title of a        *)
(* non-empty extracted value, the direct replies to the main submission    *)
(* included, has its "**Title:**" line, right below its header and date.  *)
(***************************************************************************)
C13_TitleForAllButMain ==
    (Rendered /\ DistinctIds(notes)) =>
        LET lines == OutLines
            start == SectionStart(lines)
        IN /\ SelectedRoot(notes) # 0 => TitlePos(lines, SelectedRoot(notes)) = {}
           /\ \A i \in Reached(notes) :
                 \A h \in HeaderPos(lines, Who(i), start) : TitlePos(lines, i) = {h + 3}

(***************************************************************************)
(* What the whole-thread render leaves out                                 *)
(***************************************************************************)
\* The selected root of ns and the nodes below it.
TreeOf(ns) == IF SelectedRoot(ns) = 0 THEN {} ELSE {SelectedRoot(ns)} \cup Reached(ns)

\* The comment headers of a document that belong to the nodes of the set among.
HeadersOf(lines, among) == UNION {HeaderPos(lines, Who(i), 0) : i \in among}

(***************************************************************************)
(* C14: for a list with pairwise distinct ids, format_all_notes renders    *)
(* each node at most once and no node but the selected root and the nodes  *)
(* whose parent_id chain leads to it; further parentless nodes and their   *)
(* replies, replies to an id that is not in the list and the members of a  *)
(* parent cycle have no header in the document, and the Total Comments     *)
(* line counts them all the same.                                          *)
(***************************************************************************)
C14_TreeOnlyOnce ==
    (Rendered /\ DistinctIds(notes)) =>
        \A lines \in {OutLines} :
        LET all == 1..Len(notes)
        IN /\ \A i \in all : Cardinality(HeaderPos(lines, Who(i), 0)) <= 1
           /\ \A i \in all \ TreeOf(notes) : HeaderPos(lines, Who(i), 0) = {}
           /\ AnyHeaderPos(lines, 0) = HeadersOf(lines, TreeOf(notes))
           /\ lines[3] = "**Total Comments:** " \o ToString(Len(notes))

\* A root with one reply, and besides a later parentless node, a reply to it
\* (or to an id that is not in the list, or to itself): two headers, count 4.
C14_Witness ==
    /\ Rendered /\ DistinctIds(notes)
    /\ Len(notes) = 4
    /\ TreeOf(notes) = {1, 2}
    /\ ~HasParent(notes[3])
    /\ HasParent(notes[4]) /\ ~ReplyOf(notes, 4, 1) /\ ~ReplyOf(notes, 4, 2)
    /\ Cardinality(AnyHeaderPos(OutLines, 0)) = 2
    /\ OutLines[3] = "**Total Comments:** 4"

====
